---- MODULE Spec2Model ----
(***************************************************************************)
(* The notebook 8W_Dask_Rapids.ipynb as a state machine.                   *)
(*                                                                         *)
(* A run executes the statements of the seven code cells in order ("Run    *)
(* All").  The state is the kernel's namespace (cluster, client, df, X, y, *)
(* fit, df_nyc, X_test), the sequence of library calls issued, the         *)
(* outputs printed, and the environment the calls read (visible GPUs, the  *)
(* listings*.csv and test*.csv files).  The one function the notebook      *)
(* authors, expensive, is modelled both as the sequential loop and as the  *)
(* kernel that apply_rows runs on parallel threads.                        *)
(***************************************************************************)
EXTENDS Integers, Sequences, FiniteSets, TLC

\* ------------------------------------------------------------------ bounds
MaxGPU == 2          \* visible GPUs range over 1..MaxGPU
MaxRows == 3         \* rows of the listings files (groups vary)
MaxMissingRows == 2  \* rows of the listings files (features missing)
MaxTestRows == 2     \* rows of the test files
MaxKernelRows == 3   \* length of the column handed to the kernel
MaxThreads == 2      \* parallel threads running the kernel

\* ------------------------------------------------------------- data values
\* <NA>, the missing value of a cudf column (all real values are >= 0)
NA == -1

\* dask's head(): n = 5 rows, taken from the first partition only
HeadRows == 5

Prices == {49, 50, 99, 100, 125}
GroupPrices == {49, 100}

\* pairs that differ in the neighbourhood only, and in the room type only
GroupKeys ==
  {<<"East Boston", "Entire home/apt">>, <<"East Boston", "Private room">>,
   <<"Back Bay", "Entire home/apt">>}

ListingColumns ==
  <<"neighbourhood", "room_type", "price", "minimum_nights", "reviews_per_month">>

RECURSIVE SeqsUpTo(_, _)
\* every sequence over S of length at most n
SeqsUpTo(S, n) ==
  IF n = 0 THEN {<<>>}
  ELSE LET shorter == SeqsUpTo(S, n - 1)
       IN  shorter \cup {Append(s, e) : s \in {t \in shorter : Len(t) = n - 1}, e \in S}

Range(s) == {s[k] : k \in 1..Len(s)}

\* the j-th smallest element of a finite set of integers
NthSmallest(S, j) == CHOOSE c \in S : Cardinality({d \in S : d < c}) = j - 1

\* rows cut into consecutive non-empty chunks after the positions in cuts;
\* no rows at all is one empty file (a header line only)
Chunk(rows, cuts) ==
  LET ends == cuts \cup {Len(rows)}
      first(j) == IF j = 1 THEN 1 ELSE NthSmallest(ends, j - 1) + 1
  IN  IF rows = <<>> THEN << <<>> >>
      ELSE [j \in 1..Cardinality(ends) |-> SubSeq(rows, first(j), NthSmallest(ends, j))]

\* ------------------------------------------------------- frames (dask_cudf)
\* A frame is [columns, dtypes, parts]: parts is the sequence of partitions,
\* each a sequence of rows; a row is a record of its column values plus its
\* index label.

\* dtype read_csv infers for a column
CsvDtype(c) ==
  IF c \in {"neighbourhood", "room_type"} THEN "object"
  ELSE IF c = "reviews_per_month" THEN "float64" ELSE "int64"

\* dask_cudf.read_csv(glob): one partition per file, each partition with its
\* own RangeIndex starting at 0
read_csv(files) ==
  [columns |-> ListingColumns,
   dtypes  |-> [c \in Range(ListingColumns) |-> CsvDtype(c)],
   parts   |-> [p \in 1..Len(files) |->
                 [k \in 1..Len(files[p]) |->
                   [c \in Range(ListingColumns) \cup {"index"} |->
                     IF c = "index" THEN k - 1 ELSE files[p][k][c]]]]]

\* frame[[cols]]: the named columns, rows and index labels kept
getitem(frame, cols) ==
  [columns |-> cols,
   dtypes  |-> [c \in Range(cols) |-> frame.dtypes[c]],
   parts   |-> [p \in 1..Len(frame.parts) |->
                 [k \in 1..Len(frame.parts[p]) |->
                   [c \in Range(cols) \cup {"index"} |-> frame.parts[p][k][c]]]]]

\* a value converted to float32: missing stays missing; the integers of the
\* model lie below 2^24, above it the low bits are rounded away
Float32(v) ==
  IF v = NA THEN NA
  ELSE IF v < 16777216 THEN v ELSE (v \div 2) * 2

\* frame.astype(np.float32)
astype(frame, dtype) ==
  [columns |-> frame.columns,
   dtypes  |-> [c \in Range(frame.columns) |-> dtype],
   parts   |-> [p \in 1..Len(frame.parts) |->
                 [k \in 1..Len(frame.parts[p]) |->
                   [c \in DOMAIN frame.parts[p][k] |->
                     IF c = "index" THEN frame.parts[p][k][c]
                     ELSE Float32(frame.parts[p][k][c])]]]]

\* a row with a missing value in some column
HasNA(row, cols) == \E c \in Range(cols) : row[c] = NA

\* dropna(how='all'): only the rows in which every column is missing go
dropna_all(frame) ==
  [frame EXCEPT !.parts =
    [p \in 1..Len(frame.parts) |->
      SelectSeq(frame.parts[p], LAMBDA r : \E c \in Range(frame.columns) : r[c] # NA)]]

\* frame.dropna(): within each partition, the rows without a missing value,
\* order and index labels kept
dropna(frame) ==
  [frame EXCEPT !.parts =
    [p \in 1..Len(frame.parts) |->
      SelectSeq(frame.parts[p], LAMBDA r : ~HasNA(r, frame.columns))]]

\* frame.head(): the first HeadRows rows of the first partition
head(frame) ==
  IF Len(frame.parts) = 0 THEN <<>>
  ELSE SubSeq(frame.parts[1], 1,
              IF Len(frame.parts[1]) < HeadRows THEN Len(frame.parts[1]) ELSE HeadRows)

RECURSIVE Flatten(_)
\* the rows of all partitions, in order
Flatten(parts) ==
  IF parts = <<>> THEN <<>> ELSE Head(parts) \o Flatten(Tail(parts))

\* ------------------------------------------------------------ groupby mean
GroupKey(row) == <<row["neighbourhood"], row["room_type"]>>

RECURSIVE SumPrice(_)
SumPrice(rows) ==
  IF rows = <<>> THEN 0 ELSE Head(rows)["price"] + SumPrice(Tail(rows))

RECURSIVE GCD(_, _)
GCD(a, b) == IF b = 0 THEN a ELSE GCD(b, a % b)

\* the quotient n / d as a fraction in lowest terms
Ratio(n, d) == <<n \div GCD(n, d), d \div GCD(n, d)>>

\* one partition's partial aggregate: per key, the sum and the count
PartialAgg(part) ==
  [key \in {GroupKey(part[k]) : k \in 1..Len(part)} |->
     LET mine == SelectSeq(part, LAMBDA r : GroupKey(r) = key)
     IN  [sum |-> SumPrice(mine), count |-> Len(mine)]]

RECURSIVE CombineAgg_first(_, _)
\* the combine step keeping one partition's aggregate instead of adding them
CombineAgg_first(partials, key) ==
  IF partials = <<>> THEN [sum |-> 0, count |-> 0]
  ELSE IF key \in DOMAIN Head(partials) THEN Head(partials)[key]
       ELSE CombineAgg_first(Tail(partials), key)

RECURSIVE CombineAgg(_, _)
\* the partial aggregates of the partitions added up, for one key
CombineAgg(partials, key) ==
  IF partials = <<>> THEN [sum |-> 0, count |-> 0]
  ELSE LET rest == CombineAgg(Tail(partials), key)
           here == Head(partials)
       IN  IF key \in DOMAIN here
           THEN [sum |-> here[key].sum + rest.sum, count |-> here[key].count + rest.count]
           ELSE rest

\* df.groupby(['neighbourhood', 'room_type']).price.mean().compute(): the
\* partitions are aggregated separately, the partial sums and counts are
\* combined, and the mean of a key is combined sum / combined count
groupby_mean(frame) ==
  LET partials == [p \in 1..Len(frame.parts) |-> PartialAgg(frame.parts[p])]
      keys == UNION {DOMAIN partials[p] : p \in 1..Len(partials)}
  IN  [key \in keys |->
        LET total == CombineAgg(partials, key) IN Ratio(total.sum, total.count)]

\* ------------------------------------------------------- expensive (cell 5)
\* the loop body with the first comparison written <= instead of <
price_index_of_le(price) ==
  IF price <= 50 THEN 0
  ELSE IF price < 100 THEN 1
  ELSE 2

\* the if / elif / else of the loop body: the index written for one price
price_index_of(price) ==
  IF price < 50 THEN 0
  ELSE IF price < 100 THEN 1
  ELSE 2

RECURSIVE expensive_from(_, _, _)
\* the loop of expensive from iteration i on (i counts from 0 as enumerate
\* does; sequences are 1-based)
expensive_from(x, price_index, i) ==
  IF i >= Len(x) THEN price_index
  ELSE expensive_from(x, [price_index EXCEPT ![i + 1] = price_index_of(x[i + 1])], i + 1)

\* expensive(x, price_index) run sequentially: the contents of price_index
\* after the loop
expensive(x, price_index) == expensive_from(x, price_index, 0)

\* contents an allocated, not yet written output entry may have
Junk == {0, 7}

\* apply_rows with the result stored into the input column as well
apply_rows_inplace(frame, junk) ==
  [columns |-> Append(frame.columns, "price_index"),
   dtypes  |-> [c \in Range(frame.columns) \cup {"price_index"} |->
                 IF c = "price_index" THEN "int64" ELSE frame.dtypes[c]],
   parts   |-> [p \in 1..Len(frame.parts) |->
                 LET part == frame.parts[p]
                     prices == [k \in 1..Len(part) |-> part[k]["price"]]
                     out == expensive(prices, [k \in 1..Len(part) |-> junk])
                 IN  [k \in 1..Len(part) |->
                       [c \in DOMAIN part[k] \cup {"price_index"} |->
                         IF c \in {"price_index", "price"} THEN out[k] ELSE part[k][c]]]]]

\* df.apply_rows(expensive, incols={'price':'x'}, outcols={'price_index': int}):
\* on every partition, an output column is allocated (contents junk), the
\* function runs on the price column, and the output column is added
apply_rows(frame, junk) ==
  [columns |-> Append(frame.columns, "price_index"),
   dtypes  |-> [c \in Range(frame.columns) \cup {"price_index"} |->
                 IF c = "price_index" THEN "int64" ELSE frame.dtypes[c]],
   parts   |-> [p \in 1..Len(frame.parts) |->
                 LET part == frame.parts[p]
                     x == [k \in 1..Len(part) |-> part[k]["price"]]
                     out == expensive(x, [k \in 1..Len(part) |-> junk])
                 IN  [k \in 1..Len(part) |->
                       [c \in DOMAIN part[k] \cup {"price_index"} |->
                         IF c = "price_index" THEN out[k] ELSE part[k][c]]]]]

\* ------------------------------------------------------- linear regression
\* LinearRegression().fit(X, y): the estimator, determined by its training data
fit_model(X, y) == [X |-> X, y |-> y]

\* fit.predict(X_test).compute(): one prediction per row of X_test, in order,
\* under the row's index label
predict(model, frame) ==
  LET rows == Flatten(frame.parts)
  IN  [model |-> model,
       values |-> [k \in 1..Len(rows) |->
                    [index |-> rows[k]["index"],
                     features |-> [c \in Range(frame.columns) |-> rows[k][c]]]]]

\* ------------------------------------------------------------------- state
VARIABLES
  pc,           \* the statement to run next, or "done" / "error"
  ns,           \* the kernel's namespace: bound names and their values
  calls,        \* the library calls issued so far, in order, with their outcome
  outputs,      \* what the cells have printed so far, in order
  assigned,     \* the workers the scheduler has given work to
  predictions,  \* the value of fit.predict(X_test).compute()
  gpus,         \* environment: number of visible GPU devices
  listings,     \* environment: the files matching listings*.csv
  test,         \* environment: the files matching test*.csv
  x,            \* kernel: the input column
  price_index,  \* kernel: the output column
  nthreads,     \* kernel: number of threads of the launch
  thread,       \* kernel: per thread, its loop position and loaded price
  writes        \* kernel: per entry of price_index, the stores made to it

vars == <<pc, ns, calls, outputs, assigned, predictions, gpus, listings, test,
          x, price_index, nthreads, thread, writes>>

env == <<gpus, listings, test>>

kernel == <<x, price_index, nthreads, thread, writes>>

\* the statements of the code cells, in notebook order (an import is part of
\* the statement that follows it)
Program ==
  <<"nvidia_smi",
    "LocalCUDACluster", "Client",
    "read_csv", "df_head",
    "groupby_mean",
    "apply_rows", "price_index_head",
    "X", "y", "fit",
    "read_csv_test", "X_test", "predict">>

\* the code cell (execution_count) a statement belongs to
CellOf(stmt) ==
  CASE stmt = "nvidia_smi" -> 1
    [] stmt \in {"LocalCUDACluster", "Client"} -> 2
    [] stmt \in {"read_csv", "df_head"} -> 3
    [] stmt = "groupby_mean" -> 4
    [] stmt \in {"apply_rows", "price_index_head"} -> 5
    [] stmt \in {"X", "y", "fit"} -> 6
    [] stmt \in {"read_csv_test", "X_test", "predict"} -> 7

PositionOf(stmt) == CHOOSE k \in 1..Len(Program) : Program[k] = stmt

\* control passing over the groupby cell
Successor_skip(stmt) ==
  IF stmt = "df_head" THEN "apply_rows"
  ELSE IF PositionOf(stmt) = Len(Program) THEN "done" ELSE Program[PositionOf(stmt) + 1]

\* the statement after stmt, "done" after the last
Successor(stmt) ==
  IF PositionOf(stmt) = Len(Program) THEN "done" ELSE Program[PositionOf(stmt) + 1]

\* the statements issued so far, in order
Issued == [k \in 1..Len(calls) |-> calls[k].stmt]

\* name = value
Bind(name, value) ==
  [n \in DOMAIN ns \cup {name} |-> IF n = name THEN value ELSE ns[n]]

\* a statement whose call returns: control moves to the next statement
Return(stmt) ==
  /\ pc = stmt
  /\ pc' = Successor(stmt)
  /\ calls' = Append(calls, [stmt |-> stmt, outcome |-> "returned"])

\* a table shown as the value of a cell's last expression
Table(stmt, value) == [stmt |-> stmt, kind |-> "table", value |-> value]

\* text a shell command writes to the cell's output stream
Stream(stmt, value) == [stmt |-> stmt, kind |-> "stream", value |-> value]

\* the scheduler hands the work of a computation to a worker of the cluster
Schedule(w) ==
  /\ w \in ns["cluster"].workers
  /\ assigned' = assigned \cup {w}

\* series.head(): the first HeadRows entries of a computed series
series_head(values) ==
  SubSeq(values, 1, IF Len(values) < HeadRows THEN Len(values) ELSE HeadRows)

\* ------------------------------------------------------------ environment
\* rows in which every column is present and the group keys and the price vary
GroupRows ==
  {[neighbourhood |-> key[1], room_type |-> key[2], price |-> price,
    minimum_nights |-> 32, reviews_per_month |-> 27] :
     key \in GroupKeys, price \in GroupPrices}

\* rows in which the two feature columns are present or missing
MissingRows ==
  [neighbourhood : {"East Boston"}, room_type : {"Entire home/apt"}, price : {75},
   minimum_nights : {NA, 91}, reviews_per_month : {NA, 27}]

TestRows ==
  [neighbourhood : {"Harlem"}, room_type : {"Private room"}, price : {150},
   minimum_nights : {NA, 3}, reviews_per_month : {NA, 21}]

\* the ways a glob can resolve to files holding at most n rows over pool
FileSets(pool, n) ==
  UNION {{Chunk(rows, cuts) : cuts \in SUBSET (1..(Len(rows) - 1))} : rows \in SeqsUpTo(pool, n)}

KernelIdle ==
  /\ x = <<>>
  /\ price_index = <<>>
  /\ nthreads = 0
  /\ thread = <<>>
  /\ writes = <<>>

Start ==
  /\ pc = "nvidia_smi"
  /\ ns = << >>
  /\ calls = <<>>
  /\ outputs = <<>>
  /\ assigned = {}
  /\ predictions = <<>>
  /\ KernelIdle

\* the first and the fifth listing of the recorded df.head(): the fifth has
\* no reviews_per_month
BaseListings ==
  << <<[neighbourhood |-> "East Boston", room_type |-> "Entire home/apt", price |-> 125,
        minimum_nights |-> 32, reviews_per_month |-> 27],
       [neighbourhood |-> "Back Bay", room_type |-> "Entire home/apt", price |-> 75,
        minimum_nights |-> 91, reviews_per_month |-> NA]>> >>

BaseTest ==
  << <<[neighbourhood |-> "Harlem", room_type |-> "Private room", price |-> 150,
        minimum_nights |-> 3, reviews_per_month |-> 21]>> >>

\* runs over listings whose groups and prices vary
InitGroups ==
  /\ Start
  /\ gpus = 1
  /\ listings \in FileSets(GroupRows, MaxRows)
  /\ test = BaseTest

\* runs over listings with missing feature values
InitMissing ==
  /\ Start
  /\ gpus = 1
  /\ listings \in FileSets(MissingRows, MaxMissingRows)
  /\ test = BaseTest

\* runs over test data with missing feature values
InitTest ==
  /\ Start
  /\ gpus = 1
  /\ listings = BaseListings
  /\ test \in FileSets(TestRows, MaxTestRows)

\* runs on machines with one or more GPUs
InitDevices ==
  /\ Start
  /\ gpus \in 1..MaxGPU
  /\ listings = BaseListings
  /\ test = BaseTest

Init == InitGroups \/ InitMissing \/ InitTest \/ InitDevices

\* ------------------------------------------------------------ cell 1
\* !nvidia-smi: prints the device report, one entry per visible GPU
Run_nvidia_smi ==
  /\ Return("nvidia_smi")
  /\ outputs' = Append(outputs, Stream("nvidia_smi", gpus))
  /\ UNCHANGED <<ns, assigned, predictions, env, kernel>>

\* ------------------------------------------------------------ cell 2
\* a cluster of one worker whatever the number of devices
LocalCUDACluster_single(devices) == [workers |-> {1}]

\* LocalCUDACluster() "will count each available GPU in our cluster as a Dask
\* worker": the workers are numbered as the devices are
LocalCUDACluster(devices) == [workers |-> 1..devices]

\* cluster = LocalCUDACluster(): one Dask worker per available GPU
Run_LocalCUDACluster ==
  /\ Return("LocalCUDACluster")
  /\ ns' = Bind("cluster", LocalCUDACluster(gpus))
  /\ UNCHANGED <<outputs, assigned, predictions, env, kernel>>

\* client = Client(cluster)
Run_Client ==
  /\ Return("Client")
  /\ ns' = Bind("client", [cluster |-> ns["cluster"]])
  /\ UNCHANGED <<outputs, assigned, predictions, env, kernel>>

\* ------------------------------------------------------------ cell 3
\* df = dask_cudf.read_csv('listings*.csv')
Run_read_csv ==
  /\ Return("read_csv")
  /\ ns' = Bind("df", read_csv(listings))
  /\ UNCHANGED <<outputs, assigned, predictions, env, kernel>>

\* the cell ending in the assignment, so that it shows nothing
Run_df_head_silent ==
  /\ Return("df_head")
  /\ \E w \in ns["client"].cluster.workers : Schedule(w)
  /\ UNCHANGED <<ns, outputs, predictions, env, kernel>>

\* df.head()
Run_df_head ==
  /\ Return("df_head")
  /\ \E w \in ns["client"].cluster.workers : Schedule(w)
  /\ outputs' = Append(outputs, Table("df_head", head(ns["df"])))
  /\ UNCHANGED <<ns, predictions, env, kernel>>

\* ------------------------------------------------------------ cell 4
\* df.groupby(['neighbourhood', 'room_type']).price.mean().compute()
Run_groupby_mean ==
  /\ Return("groupby_mean")
  /\ \E w \in ns["client"].cluster.workers : Schedule(w)
  /\ outputs' = Append(outputs, Table("groupby_mean", groupby_mean(ns["df"])))
  /\ UNCHANGED <<ns, predictions, env, kernel>>

\* ------------------------------------------------------------ cell 5
\* df = df.apply_rows(expensive, incols={'price':'x'}, outcols={'price_index': int})
Run_apply_rows ==
  /\ Return("apply_rows")
  /\ \E junk \in Junk : ns' = Bind("df", apply_rows(ns["df"], junk))
  /\ UNCHANGED <<outputs, assigned, predictions, env, kernel>>

\* df[['price', 'price_index']].head()
Run_price_index_head ==
  /\ Return("price_index_head")
  /\ \E w \in ns["client"].cluster.workers : Schedule(w)
  /\ outputs' = Append(outputs,
       Table("price_index_head", head(getitem(ns["df"], <<"price", "price_index">>))))
  /\ UNCHANGED <<ns, predictions, env, kernel>>

\* ------------------------------------------------------------ cell 6
\* X = df[['reviews_per_month', 'minimum_nights']].astype(np.float32).dropna()
Run_X ==
  /\ Return("X")
  /\ ns' = Bind("X",
       dropna(astype(getitem(ns["df"], <<"reviews_per_month", "minimum_nights">>), "float32")))
  /\ UNCHANGED <<outputs, assigned, predictions, env, kernel>>

\* y = df[['price']].astype(np.float32).dropna()
Run_y ==
  /\ Return("y")
  /\ ns' = Bind("y", dropna(astype(getitem(ns["df"], <<"price">>), "float32")))
  /\ UNCHANGED <<outputs, assigned, predictions, env, kernel>>

\* fit = LinearRegression().fit(X, y)
Run_fit ==
  /\ Return("fit")
  /\ \E w \in ns["client"].cluster.workers : Schedule(w)
  /\ ns' = Bind("fit", fit_model(ns["X"], ns["y"]))
  /\ UNCHANGED <<outputs, predictions, env, kernel>>

\* ------------------------------------------------------------ cell 7
\* df_nyc = dask_cudf.read_csv('test*.csv')
Run_read_csv_test ==
  /\ Return("read_csv_test")
  /\ ns' = Bind("df_nyc", read_csv(test))
  /\ UNCHANGED <<outputs, assigned, predictions, env, kernel>>

\* X_test = df_nyc[['reviews_per_month', 'minimum_nights']].astype(np.float32).dropna()
Run_X_test ==
  /\ Return("X_test")
  /\ ns' = Bind("X_test",
       dropna(astype(getitem(ns["df_nyc"], <<"reviews_per_month", "minimum_nights">>), "float32")))
  /\ UNCHANGED <<outputs, assigned, predictions, env, kernel>>

\* fit = fit.predict(X_test).compute(): the estimator's name reused
Run_predict_rebind ==
  /\ Return("predict")
  /\ \E w \in ns["client"].cluster.workers : Schedule(w)
  /\ predictions' = predict(ns["fit"], ns["X_test"])
  /\ ns' = Bind("fit", predictions')
  /\ outputs' = Append(outputs, Table("predict", series_head(predictions'.values)))
  /\ UNCHANGED <<env, kernel>>

\* fit.predict(X_test).compute().head()
Run_predict ==
  /\ Return("predict")
  /\ \E w \in ns["client"].cluster.workers : Schedule(w)
  /\ predictions' = predict(ns["fit"], ns["X_test"])
  /\ outputs' = Append(outputs, Table("predict", series_head(predictions'.values)))
  /\ UNCHANGED <<ns, env, kernel>>

\* ------------------------------------------------------------ failure
\* a failed call issued again
Raise_retry ==
  /\ pc \in Range(Program) \ {"nvidia_smi"}
  /\ pc' = pc
  /\ calls' = Append(calls, [stmt |-> pc, outcome |-> "raised"])
  /\ UNCHANGED <<ns, outputs, assigned, predictions, env, kernel>>

\* a library call raises: nothing catches it, the assignment it is part of
\* does not happen, and the run stops (nvidia-smi is a shell escape, whose
\* failure raises nothing)
Raise ==
  /\ pc \in Range(Program) \ {"nvidia_smi"}
  /\ pc' = "error"
  /\ calls' = Append(calls, [stmt |-> pc, outcome |-> "raised"])
  /\ UNCHANGED <<ns, outputs, assigned, predictions, env, kernel>>

Next ==
  \/ Run_nvidia_smi
  \/ Run_LocalCUDACluster
  \/ Run_Client
  \/ Run_read_csv
  \/ Run_df_head
  \/ Run_groupby_mean
  \/ Run_apply_rows
  \/ Run_price_index_head
  \/ Run_X
  \/ Run_y
  \/ Run_fit
  \/ Run_read_csv_test
  \/ Run_X_test
  \/ Run_predict
  \/ Raise

Spec == Init /\ [][Next]_vars

\* ------------------------------------------------- the kernel of apply_rows
\* apply_rows compiles expensive with Numba's CUDA compiler and runs it on
\* nthreads parallel threads ("for loop is automatically parallelized"):
\* thread t runs the loop over its stride of the columns, so its local
\* iteration i is row t + i * nthreads.

\* every thread running the whole loop instead of its stride
RowOf_whole(t, i) == i

\* the row (counted from 0) thread t handles in its iteration i
RowOf(t, i) == t + i * nthreads

\* thread t has run off the end of its stride
Finished(t) == thread[t].phase = "load" /\ RowOf(t, thread[t].i) >= Len(x)

KernelInit ==
  /\ pc = "apply_rows"
  /\ ns = << >>
  /\ calls = <<>>
  /\ outputs = <<>>
  /\ assigned = {}
  /\ predictions = <<>>
  /\ gpus = 1
  /\ listings = <<>>
  /\ test = <<>>
  /\ x \in SeqsUpTo(Prices, MaxKernelRows)
  /\ price_index \in [1..Len(x) -> Junk]
  /\ nthreads \in 1..MaxThreads
  /\ thread = [t \in 0..(nthreads - 1) |-> [i |-> 0, phase |-> "load", price |-> NA, read |-> NA]]
  /\ writes = [k \in 1..Len(x) |-> <<>>]

\* for i, price in enumerate(x): the next price of the thread's stride
Load(t) ==
  /\ thread[t].phase = "load"
  /\ RowOf(t, thread[t].i) < Len(x)
  /\ thread' = [thread EXCEPT ![t] =
       [@ EXCEPT !.phase = "store",
                 !.price = x[RowOf(t, thread[t].i) + 1],
                 !.read = RowOf(t, thread[t].i)]]
  /\ UNCHANGED <<x, price_index, nthreads, writes>>

\* price_index[i] = 0 / 1 / 2, and on to the next iteration
Store(t) ==
  /\ thread[t].phase = "store"
  /\ price_index' =
       [price_index EXCEPT ![RowOf(t, thread[t].i) + 1] = price_index_of(thread[t].price)]
  /\ writes' =
       [writes EXCEPT ![RowOf(t, thread[t].i) + 1] =
          Append(@, [thread |-> t, read |-> thread[t].read])]
  /\ thread' = [thread EXCEPT ![t] = [@ EXCEPT !.phase = "load", !.i = @ + 1]]
  /\ UNCHANGED <<x, nthreads>>

KernelNext ==
  \/ \E t \in DOMAIN thread : Load(t) /\ UNCHANGED <<pc, ns, calls, outputs, assigned, predictions, env>>
  \/ \E t \in DOMAIN thread : Store(t) /\ UNCHANGED <<pc, ns, calls, outputs, assigned, predictions, env>>

SpecKernel == KernelInit /\ [][KernelNext]_vars

\* the launch is over: every thread has finished its stride
KernelDone == nthreads > 0 /\ \A t \in DOMAIN thread : Finished(t)

\* ================================================================== claims
\* ------------------------------------------------ helpers of the formulas
\* the statements that work on a DataFrame
FrameStmts ==
  {"read_csv", "df_head", "groupby_mean", "apply_rows", "price_index_head",
   "X", "y", "fit", "read_csv_test", "X_test", "predict"}

\* a call of stmt has returned
Returned(stmt) == \E k \in 1..Len(calls) : calls[k] = [stmt |-> stmt, outcome |-> "returned"]

\* the run has ended, by running off the last cell or by an error
RunOver == pc \in {"done", "error"}

\* the statements whose tables have been printed, in order
TablesPrinted ==
  LET tables == SelectSeq(outputs, LAMBDA o : o.kind = "table")
  IN  [k \in 1..Len(tables) |-> tables[k].stmt]

\* the tables of a complete run: the first listings, the group means, the
\* price / price_index view, the first predictions
FourTables == <<"df_head", "groupby_mean", "price_index_head", "predict">>

\* C2 (as stated): every run performs every step exactly once, in order.
C2_ExactlyOnce ==
  RunOver =>
    /\ Issued = Program
    /\ \A k \in 1..Len(calls) : calls[k].outcome = "returned"

\* C2 (amended): the statements are issued in notebook order, none twice; a
\* run that ends without an error has performed every one of them exactly
\* once; no DataFrame statement is issued before cluster and client are
\* bound; fit is called on data taken from the frame that carries
\* price_index; predict is issued only after fit has returned.
C2_Order ==
  /\ Issued = SubSeq(Program, 1, Len(calls))
  /\ \A k \in 1..(Len(calls) - 1) : calls[k].outcome = "returned"
  /\ pc \in Range(Program) => pc = Program[Len(calls) + 1]
  /\ \A j, k \in 1..Len(calls) : j < k => CellOf(calls[j].stmt) <= CellOf(calls[k].stmt)
  /\ pc = "done" => (Issued = Program /\ \A k \in 1..Len(calls) : calls[k].outcome = "returned")
  /\ (\E k \in 1..Len(calls) : calls[k].stmt \in FrameStmts) =>
        {"cluster", "client"} \subseteq DOMAIN ns
  /\ (\E k \in 1..Len(calls) : calls[k].stmt = "fit") =>
        /\ {"df", "X", "y"} \subseteq DOMAIN ns
        /\ "price_index" \in Range(ns["df"].columns)
  /\ (\E k \in 1..Len(calls) : calls[k].stmt = "predict") =>
        /\ Returned("fit")
        /\ "fit" \in DOMAIN ns

\* C2 witness: a run that went through all seven cells
C2_Witness ==
  /\ pc = "done"
  /\ Len(calls) = 14
  /\ {"cluster", "client", "df", "X", "y", "fit", "df_nyc", "X_test"} \subseteq DOMAIN ns

\* C3 (as stated): the tables printed are the group means, the price /
\* price_index view and the predictions, and no step prints another table.
C3_ThreeTables ==
  /\ \A k \in 1..Len(outputs) :
       outputs[k].kind = "table" =>
         outputs[k].stmt \in {"groupby_mean", "price_index_head", "predict"}
  /\ pc = "done" => TablesPrinted = <<"groupby_mean", "price_index_head", "predict">>

\* C3 (amended): a complete run prints exactly four tables, in this order:
\* the first rows of the listings frame, the group means, the price /
\* price_index view and the first predictions; a run stopped by an error
\* has printed the first few of them, one for each of these statements
\* that returned.
C3_FourTables ==
  /\ TablesPrinted = SubSeq(FourTables, 1, Len(TablesPrinted))
  /\ \A s \in Range(FourTables) : Returned(s) <=> s \in Range(TablesPrinted)
  /\ pc = "done" => TablesPrinted = FourTables

\* C3 witness: a complete run, with the listings table printed first
C3_Witness ==
  /\ pc = "done"
  /\ Len(TablesPrinted) = 4
  /\ outputs[2] = Table("df_head", head(read_csv(listings)))
  /\ Len(listings[1]) > 0

\* C4 (as stated): no name of the notebook is bound to a new value once bound.
C4_NeverRebound == [][\A n \in DOMAIN ns : ns'[n] = ns[n]]_vars

\* C4 (amended): a statement whose call returns has exactly one successor,
\* the next statement of the notebook, and one whose call raises ends the
\* run; names stay bound and keep their values from cell to cell, except
\* that the apply_rows statement rebinds df, to the frame with the column
\* price_index (computed by the notebook's own function expensive) added.
C4_OneRebinding ==
  [][/\ calls'[Len(calls')].outcome = "returned" => pc' = Successor(pc)
     /\ calls'[Len(calls')].outcome = "raised" => pc' = "error"
     /\ \A n \in DOMAIN ns :
          /\ n \in DOMAIN ns'
          /\ ns'[n] # ns[n] =>
               /\ n = "df"
               /\ pc = "apply_rows"
               /\ ns'[n].columns = Append(ns[n].columns, "price_index")
               /\ \E junk \in Junk : ns'[n] = apply_rows(ns[n], junk)]_vars

\* C4 witness: df has been rebound by the apply_rows statement
C4_Witness ==
  /\ pc = "price_index_head"
  /\ ns["df"].columns = Append(ListingColumns, "price_index")
  /\ Len(Flatten(ns["df"].parts)) = 3

C6_NoRecovery ==
  [][/\ pc # "error"
     /\ calls'[Len(calls')].outcome = "raised" =>
          /\ pc' = "error"
          /\ calls'[Len(calls')].stmt = pc
          /\ ns' = ns
          /\ outputs' = outputs
          /\ predictions' = predictions
     /\ \A k \in 1..Len(calls) : calls[k].stmt # calls'[Len(calls')].stmt
     /\ (pc = "apply_rows" /\ pc' = "error") =>
          ns'["df"].columns = ListingColumns]_vars

\* C6 witness: apply_rows raised; df is the frame read from the files
C6_Witness ==
  /\ pc = "error"
  /\ calls[Len(calls)] = [stmt |-> "apply_rows", outcome |-> "raised"]
  /\ ns["df"] = read_csv(listings)
  /\ Len(listings[1]) > 0


\* C1: once expensive(x, price_index) has run, price_index[i] is 0 where
\* x[i] < 50, 1 where 50 <= x[i] < 100 and 2 where x[i] >= 100, for every row
\* i; every entry is one of 0, 1, 2, and the prices 50 and 100 get 1 and 2.
C1_PriceIndex ==
  KernelDone =>
    \A k \in 1..Len(x) :
      /\ price_index[k] \in {0, 1, 2}
      /\ x[k] < 50 => price_index[k] = 0
      /\ (50 <= x[k] /\ x[k] < 100) => price_index[k] = 1
      /\ x[k] >= 100 => price_index[k] = 2

\* C1 witness: the function has run on a column holding 49, 50 and 100
C1_Witness ==
  /\ KernelDone
  /\ x = <<49, 50, 100>>
  /\ price_index = <<0, 1, 2>>

\* the rows of file p of the test data in which both features are present,
\* as positions in the file
Scorable(p) ==
  {k \in 1..Len(test[p]) :
     test[p][k]["reviews_per_month"] # NA /\ test[p][k]["minimum_nights"] # NA}

\* C7: the estimator bound to fit, trained on the listings data, scores the
\* test data: X_test, which predict receives, holds exactly the test rows in
\* which reviews_per_month and minimum_nights are both present, in file
\* order, and predict yields one prediction per row of X_test, in that
\* order; a test row with a missing feature gets none.
C7_ScoresTestRows ==
  Returned("predict") =>
    LET parts == ns["X_test"].parts
        rows == Flatten(parts)
    IN  /\ Len(parts) = Len(test)
        /\ \A p \in 1..Len(parts) :
             /\ {parts[p][j]["index"] + 1 : j \in 1..Len(parts[p])} = Scorable(p)
             /\ \A i, j \in 1..Len(parts[p]) :
                  i < j => parts[p][i]["index"] < parts[p][j]["index"]
             /\ \A j \in 1..Len(parts[p]) :
                  LET row == test[p][parts[p][j]["index"] + 1]
                  IN  /\ parts[p][j]["reviews_per_month"] = row["reviews_per_month"]
                      /\ parts[p][j]["minimum_nights"] = row["minimum_nights"]
        /\ predictions.model = ns["fit"]
        /\ ns["fit"] = fit_model(ns["X"], ns["y"])
        /\ Len(predictions.values) = Len(rows)
        /\ \A k \in 1..Len(rows) :
             /\ predictions.values[k].index = rows[k]["index"]
             /\ predictions.values[k].features["reviews_per_month"] = rows[k]["reviews_per_month"]
             /\ predictions.values[k].features["minimum_nights"] = rows[k]["minimum_nights"]

\* C7 witness: of two test rows the first lacks a feature; one prediction is
\* made, for the second
C7_Witness ==
  /\ pc = "done"
  /\ Len(test) = 1
  /\ Len(test[1]) = 2
  /\ test[1][1]["reviews_per_month"] = NA
  /\ Len(predictions.values) = 1
  /\ predictions.values[1].index = 1

\* the rows of the listings files with a given pair of keys
RowsOf(key) == SelectSeq(Flatten(listings), LAMBDA r : GroupKey(r) = key)

C10_Aligned ==
  {"X", "y"} \subseteq DOMAIN ns =>
    /\ Len(ns["X"].parts) = Len(ns["y"].parts)
    /\ \A p \in 1..Len(ns["X"].parts) :
         /\ Len(ns["X"].parts[p]) = Len(ns["y"].parts[p])
         /\ \A k \in 1..Len(ns["X"].parts[p]) :
              ns["X"].parts[p][k]["index"] = ns["y"].parts[p][k]["index"]

InitAll == Init \/ KernelInit

NextAll ==
  \/ nthreads = 0 /\ Next
  \/ KernelNext

SpecAll == InitAll /\ [][NextAll]_vars

\* C11: applying the price-index function changes nothing but the new
\* column.  In the kernel, no step writes to x, price_index keeps its length
\* and a step changes at most the entry of the row the storing thread is at,
\* a row within 0..len(x)-1.  In the notebook, the apply_rows statement
\* rebinds df to a frame with the same partitions and rows in the same
\* order, every original column (price included), index label and dtype
\* unchanged, and exactly one more column, price_index, at the end; no
\* other name changes.
C11_OnlyNewColumn ==
  [][/\ x' = x
     /\ DOMAIN price_index' = 1..Len(x)
     /\ \A k \in 1..Len(x) :
          price_index'[k] # price_index[k] =>
            \E t \in DOMAIN thread :
              /\ thread[t].phase = "store"
              /\ thread'[t].phase = "load"
              /\ RowOf(t, thread[t].i) = k - 1
     /\ \A t \in DOMAIN thread :
          thread'[t].phase = "store" => RowOf(t, thread'[t].i) \in 0..(Len(x) - 1)
     /\ (pc = "apply_rows" /\ pc' = "price_index_head") =>
          LET old == ns["df"]
              new == ns'["df"]
          IN  /\ \A n \in DOMAIN ns \ {"df"} : ns'[n] = ns[n]
              /\ DOMAIN ns' = DOMAIN ns
              /\ new.columns = Append(old.columns, "price_index")
              /\ \A c \in Range(old.columns) : new.dtypes[c] = old.dtypes[c]
              /\ Len(new.parts) = Len(old.parts)
              /\ \A p \in 1..Len(old.parts) :
                   /\ Len(new.parts[p]) = Len(old.parts[p])
                   /\ \A k \in 1..Len(old.parts[p]) :
                        /\ DOMAIN new.parts[p][k] = DOMAIN old.parts[p][k] \cup {"price_index"}
                        /\ \A c \in DOMAIN old.parts[p][k] :
                             new.parts[p][k][c] = old.parts[p][k][c]
                        /\ new.parts[p][k]["price"] = listings[p][k]["price"]]_vars

\* C11 witness: df after apply_rows over two partitions, the prices 100 and
\* 49 still in place beside their indices 2 and 0
C11_Witness ==
  /\ pc = "price_index_head"
  /\ Len(ns["df"].parts) = 2
  /\ ns["df"].parts[1][1]["price"] = 100
  /\ ns["df"].parts[1][1]["price_index"] = 2
  /\ ns["df"].parts[2][1]["price"] = 49
  /\ ns["df"].parts[2][1]["price_index"] = 0
  /\ ns["df"].parts[2][1]["neighbourhood"] = "Back Bay"

====
